---- MODULE Spec2Model ----
(***************************************************************************)
(* A model of the WebGL proxy experiment: worker iframes (gl-worker.js)    *)
(* call gl stubs that post messages to the parent window, where one        *)
(* WorkerGLProxy per worker applies them to the single WebGL context, and  *)
(* main()/renderFrame() drive the per-frame collect / clear / execute      *)
(* cycle.                                                                  *)
(***************************************************************************)
EXTENDS Integers, Sequences, FiniteSets, TLC

(***************************************************************************)
(* Bounds of the model.                                                    *)
(***************************************************************************)
\* number of worker iframes (the source ships with 1; the claims about
\* several proxies need at least 2)
workerCount == 2
\* messages the page under study posts to the parent window besides frame
\* ends (stub calls and the page's own posts together)
MaxSends == 2
\* stub calls one render(time) callback makes
MaxRenderCalls == 1

Workers == 1 .. workerCount

(***************************************************************************)
(* JavaScript values that cross the model: undefined, null, numbers,       *)
(* objects (WebGLBuffer and friends, told apart by identity v) and the     *)
(* {fakeClone: true, index} stand-in for an object.                        *)
(***************************************************************************)
Undefined == [t |-> "undefined", v |-> 0]
Null == [t |-> "null", v |-> 0]
Number(n) == [t |-> "number", v |-> n]
Object(n) == [t |-> "object", v |-> n]
FakeClone(i) == [t |-> "fakeClone", v |-> i]

\* the id of a message that has no id property
NoId == -1

\* ToBoolean(x)
Truthy(x) ==
    CASE x.t = "undefined" -> FALSE
      [] x.t = "null" -> FALSE
      [] x.t \in {"number", "boolean"} -> x.v # 0
      [] OTHER -> TRUE

\* typeof x === 'object'
TypeofObject(x) == x.t \in {"null", "object", "fakeClone"}

\* String(x), as string concatenation converts its operand
JsString(x) ==
    CASE x.t = "undefined" -> "undefined"
      [] x.t = "null" -> "null"
      [] x.t = "number" -> ToString(x.v)
      [] OTHER -> "[object Object]"

\* args[i] of a JavaScript array: undefined beyond its length
ArgAt(args, i) == IF i \in 1 .. Len(args) THEN args[i] ELSE Undefined

(***************************************************************************)
(* Messages.  One record shape for every message posted to the parent      *)
(* window; a property the sender left out is marked absent:                *)
(* workerId 0, id NoId, name "", hasArgs FALSE, isBatch FALSE.             *)
(***************************************************************************)
Request(w, i, n, a, wr) ==
    [workerId |-> w, id |-> i, name |-> n, args |-> a, hasArgs |-> TRUE,
     wantsResponse |-> wr, isFrameEnd |-> FALSE, isBatch |-> FALSE,
     messages |-> <<>>]

\* {workerId, id, wantsResponse, messages: [...]}
Batch(w, i, ms, wr) ==
    [workerId |-> w, id |-> i, name |-> "", args |-> <<>>, hasArgs |-> FALSE,
     wantsResponse |-> wr, isFrameEnd |-> FALSE, isBatch |-> TRUE,
     messages |-> ms]

\* {workerId, isFrameEnd: true}
FrameEnd(w) ==
    [workerId |-> w, id |-> NoId, name |-> "", args |-> <<>>, hasArgs |-> FALSE,
     wantsResponse |-> FALSE, isFrameEnd |-> TRUE, isBatch |-> FALSE,
     messages |-> <<>>]

\* a request that lacks its args property
NoArgs(w, i, n, wr) ==
    [workerId |-> w, id |-> i, name |-> n, args |-> <<>>, hasArgs |-> FALSE,
     wantsResponse |-> wr, isFrameEnd |-> FALSE, isBatch |-> FALSE,
     messages |-> <<>>]

(***************************************************************************)
(* The WebGL context.  program is the program in use, bound the object     *)
(* bound to each (bind function, target), objects the number of objects    *)
(* created so far, canvas what was drawn since the last clear (each draw   *)
(* recorded with the program and bindings it was made under).              *)
(***************************************************************************)
Targets == {1, 2}
GlBindNames == {"bindBuffer", "bindFramebuffer", "bindRenderbuffer", "bindTexture"}
GlFunctions ==
    GlBindNames \cup
    {"useProgram", "createBuffer", "getParameter", "getError", "getExtension",
     "drawArrays", "clear", "clearColor", "clearDepth", "enable", "depthFunc"}

\* the properties of the context that are numbers: main() copies them to
\* the workers as constants.  NO_ERROR is 0, the others are not
GlConstants ==
    {"DEPTH_TEST", "LEQUAL", "COLOR_BUFFER_BIT", "DEPTH_BUFFER_BIT", "NO_ERROR"}

\* what every object inherits from Object.prototype: functions, and the
\* accessor __proto__, whose value is the object's prototype
ObjectPrototype ==
    {"constructor", "toString", "toLocaleString", "valueOf", "hasOwnProperty",
     "isPrototypeOf", "propertyIsEnumerable", "__defineGetter__",
     "__defineSetter__", "__lookupGetter__", "__lookupSetter__", "__proto__"}

Function == [t |-> "function", v |-> 0]

\* gl[name]
GlProperty(name) ==
    CASE name = "__proto__" -> Object(0)
      [] name \in GlFunctions \cup ObjectPrototype -> Function
      [] name = "DEPTH_TEST" -> Number(2929)
      [] name = "LEQUAL" -> Number(515)
      [] name = "COLOR_BUFFER_BIT" -> Number(16384)
      [] name = "DEPTH_BUFFER_BIT" -> Number(256)
      [] name = "NO_ERROR" -> Number(0)
      [] OTHER -> Undefined

\* a | b on numbers that are not negative
RECURSIVE BitOr(_, _)
BitOr(a, b) ==
    IF a = 0 THEN b
    ELSE IF b = 0 THEN a
    ELSE (IF a % 2 = 1 \/ b % 2 = 1 THEN 1 ELSE 0) + 2 * BitOr(a \div 2, b \div 2)

GlInit ==
    [program |-> Null,
     bound |-> [k \in GlBindNames \X Targets |-> Null],
     objects |-> 0,
     canvas |-> <<>>,
     clearColor |-> Undefined,
     clearDepth |-> Undefined,
     depthTest |-> FALSE,
     depthFunc |-> Undefined]

\* gl[name].apply(gl, args): the context after the call and the value returned
GlApply(g, name, args) ==
    CASE name = "useProgram" ->
           [gl |-> [g EXCEPT !.program = ArgAt(args, 1)], res |-> Undefined]
      [] name \in GlBindNames ->
           LET tgt == ArgAt(args, 1) IN
           IF tgt.t = "number" /\ tgt.v \in Targets
           THEN [gl |-> [g EXCEPT !.bound[<<name, tgt.v>>] = ArgAt(args, 2)],
                 res |-> Undefined]
           ELSE [gl |-> g, res |-> Undefined]
      [] name = "createBuffer" ->
           [gl |-> [g EXCEPT !.objects = @ + 1], res |-> Object(g.objects + 1)]
      [] name = "getParameter" -> [gl |-> g, res |-> Number(7)]
      [] name = "getError" -> [gl |-> g, res |-> Number(0)]
      [] name = "getExtension" -> [gl |-> g, res |-> Null]
      [] name = "drawArrays" ->
           [gl |-> [g EXCEPT !.canvas =
                       Append(@, [program |-> g.program, bound |-> g.bound])],
            res |-> Undefined]
      [] name = "clear" -> [gl |-> [g EXCEPT !.canvas = <<>>], res |-> Undefined]
      [] name = "clearColor" ->
           [gl |-> [g EXCEPT !.clearColor = ArgAt(args, 1)], res |-> Undefined]
      [] name = "clearDepth" ->
           [gl |-> [g EXCEPT !.clearDepth = ArgAt(args, 1)], res |-> Undefined]
      [] name = "enable" -> [gl |-> [g EXCEPT !.depthTest = TRUE], res |-> Undefined]
      [] name = "depthFunc" ->
           [gl |-> [g EXCEPT !.depthFunc = ArgAt(args, 1)], res |-> Undefined]
      [] OTHER -> [gl |-> g, res |-> Undefined]

(***************************************************************************)
(* WorkerGLProxy.  A proxy is a record of the fields the constructor sets  *)
(* (lastUseProgram, which the constructor leaves undefined, is a sequence  *)
(* of no or one message; lastTargettedBinds keeps its keys in insertion    *)
(* order, the order Object.values returns them in).  frameEndListener is   *)
(* "null", or the resolver of the promise getFrameCommands returned:       *)
(* "pending" until it is called, "resolved" afterwards (the field is never *)
(* set back to null, and calling a resolver again does nothing).           *)
(*                                                                         *)
(* The methods work on a record s: px the proxy, gl the context, calls the *)
(* log of calls made on the context (who made the call, for which request, *)
(* from where: at.phase "dispatch" with the message event, "flush" with    *)
(* entry at.qi of the command buffer when renderFrame called               *)
(* executeFrameCommands and "warm" when addWorker did, at.bi the place in  *)
(* a batch; was is the program in use before the call and had the objects  *)
(* bound before it), site the at.phase of a flush, posted what was posted  *)
(* to the worker,                                                          *)
(* res the value the method returned, msg its message argument as the      *)
(* method left it (executeOneCommand writes into message.args), thrown     *)
(* whether it ended by a TypeError.                                        *)
(***************************************************************************)
EmptyMap == [x \in {} |-> Undefined]

NewProxy(w) ==
    [workerId |-> w,
     uncloneables |-> EmptyMap,
     cache |-> [x \in {} |-> <<>>],
     commandBuffer |-> <<>>,
     lastTargettedBinds |-> <<>>,
     lastUseProgram |-> <<>>,
     buffering |-> FALSE,
     frameEndListener |-> "null"]

blacklist == {"clear"}

\* blacklist[name]: the object literal {clear: true}, which inherits from
\* Object.prototype as every object does
BlacklistProperty(name) ==
    CASE name \in blacklist -> [t |-> "boolean", v |-> 1]
      [] name = "__proto__" -> Object(0)
      [] name \in ObjectPrototype -> Function
      [] OTHER -> Undefined
targettedBinds == {"bindBuffer", "bindFramebuffer", "bindRenderbuffer", "bindTexture"}

\* this.uncloneables[index]
Uncloneable(u, index) == IF index \in DOMAIN u THEN u[index] ELSE Undefined

\* the loop that replaces every fakeClone argument by the stored object
ResolveArgs(u, args) ==
    [i \in 1 .. Len(args) |->
        IF Truthy(args[i]) /\ args[i].t = "fakeClone"
        THEN Uncloneable(u, args[i].v)
        ELSE args[i]]

\* message.name + '-' + message.args[0]
BindKey(name, args) == name \o "-" \o JsString(ArgAt(args, 1))

\* (mutant) a list of binds that is pushed to, not a table assigned by key
PutBindPushed(binds, key, message) ==
    Append(binds, [key |-> key, message |-> message])

\* binds[key] = message: an existing key keeps its place, a new one goes last
PutBind(binds, key, message) ==
    IF \E i \in 1 .. Len(binds) : binds[i].key = key
    THEN [i \in 1 .. Len(binds) |->
             IF binds[i].key = key THEN [key |-> key, message |-> message]
             ELSE binds[i]]
    ELSE Append(binds, [key |-> key, message |-> message])

\* this.cache[name].push({args, res}), the list created on first use
CachePush(cache, name, args, res) ==
    LET old == IF name \in DOMAIN cache THEN cache[name] ELSE <<>> IN
    [n \in DOMAIN cache \cup {name} |->
        IF n = name THEN Append(old, [args |-> args, res |-> res]) ELSE cache[n]]

\* this.uncloneables[id] = res
StoreUncloneable(u, id, res) ==
    [i \in DOMAIN u \cup {id} |-> IF i = id THEN res ELSE u[i]]

\* !this.gl[message.name] is false
Supported(name) == Truthy(GlProperty(name))

\* blacklist[message.name]
Blacklisted(name) == Truthy(BlacklistProperty(name))

\* this.gl[message.name].apply is a function
Callable(name) == GlProperty(name).t = "function"

ExecuteOneCommand(s, message, at) ==
    IF ~message.hasArgs
    THEN \* message.args.length of undefined
         [s EXCEPT !.thrown = TRUE, !.res = Undefined, !.msg = message]
    ELSE
    LET name == message.name
        Resolved(args) == [message EXCEPT !.args = args]
        SetProgram(px, m) ==
            IF name = "useProgram" THEN [px EXCEPT !.lastUseProgram = <<m>>]
            ELSE px
        SetBind(px, m) ==
            IF name \in targettedBinds
            THEN [px EXCEPT !.lastTargettedBinds =
                               PutBind(@, BindKey(name, m.args), m)]
            ELSE px
        Cache(px, m, res) ==
            IF Truthy(res) /\ ~TypeofObject(res)
            THEN [px EXCEPT !.cache = CachePush(@, name, m.args, res)]
            ELSE px
        Store(px, res) ==
            IF TypeofObject(res)
            THEN [px EXCEPT !.uncloneables = StoreUncloneable(@, message.id, res)]
            ELSE px
        Applied(m, r) ==
            [s EXCEPT !.px = Store(Cache(SetBind(SetProgram(@, m), m), m, r.res), r.res),
                      !.gl = r.gl,
                      !.calls = Append(@, [by |-> s.px.workerId, id |-> message.id,
                                           name |-> name, args |-> m.args, at |-> at,
                                           was |-> s.gl.program,
                                           had |-> s.gl.bound]),
                      !.res = IF TypeofObject(r.res) THEN FakeClone(message.id)
                              ELSE r.res,
                      !.msg = m]
        Run(m) ==
            IF ~Supported(name)
            THEN [s EXCEPT !.res = Undefined, !.msg = m]
            ELSE IF Blacklisted(name)
            THEN [s EXCEPT !.res = Undefined, !.msg = m]
            ELSE IF ~Callable(name)
            THEN \* apply of a number
                 [s EXCEPT !.px = SetBind(SetProgram(@, m), m),
                           !.thrown = TRUE, !.res = Undefined, !.msg = m]
            ELSE Applied(m, GlApply(s.gl, name, m.args))
    IN Run(Resolved(ResolveArgs(s.px.uncloneables, message.args)))

\* the for..of loop of executeCommand from element k on; a throw ends it
RECURSIVE ExecuteMessages(_, _, _, _)
ExecuteMessages(s, message, k, at) ==
    IF k > Len(message.messages) THEN [s EXCEPT !.msg = message]
    ELSE LET Rest(s1, m1) ==
                 IF s1.thrown THEN [s1 EXCEPT !.msg = m1]
                 ELSE ExecuteMessages(s1, m1, k + 1, at)
             After(s1) == Rest(s1, [message EXCEPT !.messages[k] = s1.msg])
         IN After(ExecuteOneCommand(s, message.messages[k], [at EXCEPT !.bi = k]))

\* executeCommand has no return statement: its value is undefined
ExecuteCommand(s, message, at) ==
    LET s1 == IF message.isBatch
              THEN ExecuteMessages(s, message, 1, at)
              ELSE ExecuteOneCommand(s, message, at)
    IN [s1 EXCEPT !.res = Undefined]

Reply(id, result) == [name |-> "", id |-> id, result |-> result]
FrameMessage == [name |-> "frame", id |-> NoId, result |-> Undefined]
BootstrapMessage == [name |-> "bootstrap", id |-> NoId, result |-> Undefined]

\* (mutant) no check of the workerId
AddressedAnyway(px, message) == TRUE

\* message.workerId !== this.workerId is false
Addressed(px, message) == message.workerId = px.workerId

\* (mutant) onMessage that does not look at this.buffering
OnMessageUnbuffered(s, message) ==
    IF ~Addressed(s.px, message) THEN s
    ELSE IF s.px.frameEndListener # "null" /\ message.isFrameEnd
    THEN [s EXCEPT !.px.frameEndListener = "resolved"]
    ELSE LET Respond(s1) ==
                 IF s1.thrown THEN s1
                 ELSE IF message.wantsResponse
                 THEN [s1 EXCEPT !.posted = Append(@, Reply(message.id, s1.res))]
                 ELSE s1
         IN Respond(ExecuteCommand(s, message,
                                   [phase |-> "dispatch", qi |-> 0, bi |-> 0]))

OnMessage(s, message) ==
    IF ~Addressed(s.px, message) THEN s
    ELSE IF s.px.frameEndListener # "null" /\ message.isFrameEnd
    THEN [s EXCEPT !.px.frameEndListener = "resolved"]
    ELSE IF s.px.buffering
    THEN [s EXCEPT !.px.commandBuffer = Append(@, message)]
    ELSE LET Respond(s1) ==
                 IF s1.thrown THEN s1
                 ELSE IF message.wantsResponse
                 THEN [s1 EXCEPT !.posted = Append(@, Reply(message.id, s1.res))]
                 ELSE s1
         IN Respond(ExecuteCommand(s, message,
                                   [phase |-> "dispatch", qi |-> 0, bi |-> 0]))

\* (mutant) the command buffer executed from its last entry to its first
RECURSIVE ExecuteBufferDown(_, _)
ExecuteBufferDown(s, k) ==
    IF k < 1 THEN s
    ELSE LET Rest(s2) == IF s2.thrown THEN s2 ELSE ExecuteBufferDown(s2, k - 1)
             After(s1) == Rest([s1 EXCEPT !.px.commandBuffer[k] = s1.msg])
         IN After(ExecuteCommand(s, s.px.commandBuffer[k],
                                 [phase |-> s.site, qi |-> k, bi |-> 0]))
ExecuteBufferBackwards(s, k) == ExecuteBufferDown(s, Len(s.px.commandBuffer))

\* (mutant) a flush that answers the requests that want a response
RECURSIVE ExecuteBufferAnswering(_, _)
ExecuteBufferAnswering(s, k) ==
    IF k > Len(s.px.commandBuffer) THEN s
    ELSE LET Rest(s2) == IF s2.thrown THEN s2 ELSE ExecuteBufferAnswering(s2, k + 1)
             After(s1) ==
                 Rest([s1 EXCEPT !.px.commandBuffer[k] = s1.msg,
                                 !.posted = IF s.px.commandBuffer[k].wantsResponse
                                            THEN Append(@, Reply(s.px.commandBuffer[k].id,
                                                                 s1.res))
                                            ELSE @])
         IN After(ExecuteCommand(s, s.px.commandBuffer[k],
                                 [phase |-> s.site, qi |-> k, bi |-> 0]))

\* the for..of loop of executeFrameCommands from entry k on; a throw ends it
RECURSIVE ExecuteBuffer(_, _)
ExecuteBuffer(s, k) ==
    IF k > Len(s.px.commandBuffer) THEN s
    ELSE LET Rest(s2) == IF s2.thrown THEN s2 ELSE ExecuteBuffer(s2, k + 1)
             After(s1) == Rest([s1 EXCEPT !.px.commandBuffer[k] = s1.msg])
         IN After(ExecuteCommand(s, s.px.commandBuffer[k],
                                 [phase |-> s.site, qi |-> k, bi |-> 0]))

ExecuteFrameCommands(s) ==
    LET Empty(s1) == IF s1.thrown THEN s1 ELSE [s1 EXCEPT !.px.commandBuffer = <<>>]
    IN Empty(ExecuteBuffer([s EXCEPT !.px.buffering = FALSE], 1))

\* (mutant) dropFrameCommands that executes the command buffer first
DropFrameCommandsExecuted(s) == ExecuteFrameCommands(s)

DropFrameCommands(s) ==
    [s EXCEPT !.px.buffering = FALSE, !.px.commandBuffer = <<>>]

\* (mutant) getFrameCommands whose promise does not wait for the frame end
GetFrameCommandsResolved(s) ==
    LET binds == s.px.lastTargettedBinds
        seeds == s.px.lastUseProgram \o [i \in 1 .. Len(binds) |-> binds[i].message]
    IN [s EXCEPT !.px.buffering = TRUE,
                 !.px.commandBuffer = @ \o seeds,
                 !.posted = Append(@, FrameMessage),
                 !.px.frameEndListener = "resolved"]

\* (mutant) getFrameCommands that seeds nothing
GetFrameCommandsUnseeded(s) ==
    [s EXCEPT !.px.buffering = TRUE,
              !.posted = Append(@, FrameMessage),
              !.px.frameEndListener = "pending"]

\* (mutant) getFrameCommands that does not push lastUseProgram
GetFrameCommandsBindsOnly(s) ==
    LET binds == s.px.lastTargettedBinds
        seeds == [i \in 1 .. Len(binds) |-> binds[i].message]
    IN [s EXCEPT !.px.buffering = TRUE,
                 !.px.commandBuffer = @ \o seeds,
                 !.posted = Append(@, FrameMessage),
                 !.px.frameEndListener = "pending"]

GetFrameCommands(s) ==
    LET binds == s.px.lastTargettedBinds
        seeds == s.px.lastUseProgram \o [i \in 1 .. Len(binds) |-> binds[i].message]
    IN [s EXCEPT !.px.buffering = TRUE,
                 !.px.commandBuffer = @ \o seeds,
                 !.posted = Append(@, FrameMessage),
                 !.px.frameEndListener = "pending"]

(***************************************************************************)
(* The parent window: main() from its loop over the workers (line 216) on. *)
(* pc is where main stands:                                                *)
(*   "add"      addWorker(boot.worker) sleeps before it constructs the     *)
(*              proxy (line 163)                                           *)
(*   "made"     the proxy is constructed, addWorker sleeps before it posts *)
(*              the bootstrap message (line 167)                           *)
(*   "booted"   bootstrap is posted, addWorker sleeps before its first     *)
(*              frame (line 172)                                           *)
(*   "warm"     addWorker awaits getFrameCommands of frame boot.frame of   *)
(*              its three frames (lines 174, 177, 180)                     *)
(*   "collect"  renderFrame awaits every proxy's getFrameCommands          *)
(*   "raf"      renderFrame is scheduled by requestAnimationFrame          *)
(*   "dead"     an executeFrameCommands threw: the promise of addWorker    *)
(*              and main, or of renderFrame, is rejected, and no frame is  *)
(*              begun any more                                             *)
(* boot.worker is the worker addWorker is adding, workerCount + 1 once     *)
(* main has left its loop.  proxy[w] of a worker whose proxy is not yet    *)
(* constructed is the record the constructor will make; it has no message  *)
(* listener until then.                                                    *)
(* proxies is window.proxies, in the order of the message listeners.       *)
(* calls is the log of the calls made on gl since main, addWorker or       *)
(* renderFrame last went on from a timer or an animation frame.            *)
(* recent[p] keeps, for useProgram and for every key of                    *)
(* lastTargettedBinds, the last such call proxy p made on gl.              *)
(***************************************************************************)
VARIABLES proxy, gl, calls, recent, pc, boot, up, down, id, pending, resolved,
          page, sent

vars == <<proxy, gl, calls, recent, pc, boot, up, down, id, pending, resolved,
          page, sent>>

proxies == [k \in 1 .. workerCount |-> k]

\* the frames addWorker renders before it returns
WarmUpFrames == 3

Parent ==
    [proxy |-> proxy, gl |-> gl, calls |-> calls, pc |-> pc, boot |-> boot,
     down |-> down, thrown |-> FALSE]

\* run a method of proxy p in the parent state P
Enter(P, p) ==
    [px |-> P.proxy[p], gl |-> P.gl, calls |-> P.calls, posted |-> <<>>,
     res |-> Undefined, msg |-> Undefined, thrown |-> FALSE,
     site |-> IF P.pc = "warm" THEN "warm" ELSE "flush"]
Leave(P, p, s) ==
    [P EXCEPT !.proxy[p] = s.px, !.gl = s.gl, !.calls = s.calls,
              !.down[p] = @ \o s.posted, !.thrown = s.thrown]

\* new WorkerGLProxy(worker, gl, w) has run: its listener is registered
Constructed(P, w) ==
    w < P.boot.worker \/ (w = P.boot.worker /\ P.pc # "add")

\* a call renderFrame makes on gl itself
Direct(P, name, args) ==
    [P EXCEPT !.gl = GlApply(P.gl, name, args).gl,
              !.calls = Append(@, [by |-> 0, id |-> NoId, name |-> name,
                                   args |-> args,
                                   at |-> [phase |-> "frame", qi |-> 0, bi |-> 0],
                                   was |-> P.gl.program,
                                   had |-> P.gl.bound])]

\* proxies.map(async (proxy) => { await proxy.getFrameCommands(); ... })
RECURSIVE GetAll(_, _)
GetAll(P, k) ==
    IF k > Len(proxies) THEN P
    ELSE GetAll(Leave(P, proxies[k], GetFrameCommands(Enter(P, proxies[k]))), k + 1)

\* renderFrame up to its await
RenderFrameBegin(P) == [GetAll(P, 1) EXCEPT !.pc = "collect"]

\* for (let proxy of proxies) proxy.executeFrameCommands(): a throw ends it
RECURSIVE ExecuteAll(_, _)
ExecuteAll(P, k) ==
    IF k > Len(proxies) THEN P
    ELSE LET Rest(P1) == IF P1.thrown THEN P1 ELSE ExecuteAll(P1, k + 1)
         IN Rest(Leave(P, proxies[k], ExecuteFrameCommands(Enter(P, proxies[k]))))

\* gl.COLOR_BUFFER_BIT | gl.DEPTH_BUFFER_BIT
ClearMask ==
    Number(BitOr(GlProperty("COLOR_BUFFER_BIT").v, GlProperty("DEPTH_BUFFER_BIT").v))

\* (mutant) renderFrame that clears after it has executed the commands
RenderFrameEndClearLast(P) ==
    LET P1 == Direct(P, "clearColor", <<Number(0), Number(0), Number(0), Number(1)>>)
        P2 == Direct(P1, "clearDepth", <<Number(1)>>)
        P3 == Direct(P2, "enable", <<GlProperty("DEPTH_TEST")>>)
        P4 == Direct(P3, "depthFunc", <<GlProperty("LEQUAL")>>)
        Again(P5) ==
            IF P5.thrown THEN [P5 EXCEPT !.pc = "dead"]
            ELSE [Direct(P5, "clear", <<ClearMask>>) EXCEPT !.pc = "raf"]
    IN Again(ExecuteAll(P4, 1))

\* renderFrame from the end of its await to requestAnimationFrame
RenderFrameEnd(P) ==
    LET P1 == Direct(P, "clearColor", <<Number(0), Number(0), Number(0), Number(1)>>)
        P2 == Direct(P1, "clearDepth", <<Number(1)>>)
        P3 == Direct(P2, "enable", <<GlProperty("DEPTH_TEST")>>)
        P4 == Direct(P3, "depthFunc", <<GlProperty("LEQUAL")>>)
        P5 == Direct(P4, "clear", <<ClearMask>>)
        Again(P6) == [P6 EXCEPT !.pc = IF P6.thrown THEN "dead" ELSE "raf"]
    IN Again(ExecuteAll(P5, 1))

\* addWorker from the end of an await of getFrameCommands on: it executes the
\* frame, and begins the next one; after its last frame it returns to main,
\* which adds the next worker or, after the last one, calls renderFrame
AddWorkerFrameEnd(P) ==
    LET w == P.boot.worker
        Get(P1) == Leave(P1, w, GetFrameCommands(Enter(P1, w)))
        Go(P1) ==
            IF P1.thrown THEN [P1 EXCEPT !.pc = "dead"]
            ELSE IF P1.boot.frame < WarmUpFrames
            THEN [Get(P1) EXCEPT !.boot.frame = @ + 1]
            ELSE IF w < workerCount
            THEN [P1 EXCEPT !.boot = [worker |-> w + 1, frame |-> 0], !.pc = "add"]
            ELSE RenderFrameBegin([P1 EXCEPT !.boot = [worker |-> w + 1, frame |-> 0]])
    IN Go(Leave(P, w, ExecuteFrameCommands(Enter(P, w))))

\* (mutant) Promise.race: some getFrameCommands promise is resolved
AnyResolved(P) ==
    \E k \in 1 .. Len(proxies) : P.proxy[proxies[k]].frameEndListener = "resolved"

\* Promise.all: every getFrameCommands promise of this frame is resolved
AllResolved(P) ==
    \A k \in 1 .. Len(proxies) : P.proxy[proxies[k]].frameEndListener = "resolved"

\* the promise reactions that run once a listener has returned
Microtasks(P) ==
    IF P.pc = "collect" /\ AllResolved(P) THEN RenderFrameEnd(P)
    ELSE IF P.pc = "warm" /\ P.proxy[P.boot.worker].frameEndListener = "resolved"
    THEN AddWorkerFrameEnd(P)
    ELSE P

\* a message event on the parent window: the listener of every proxy
\* constructed so far, in turn
RECURSIVE DispatchEvent(_, _, _)
DispatchEvent(P, message, k) ==
    IF k > Len(proxies) THEN P
    ELSE IF ~Constructed(P, proxies[k]) THEN DispatchEvent(P, message, k + 1)
    ELSE LET p == proxies[k]
             P1 == Leave(P, p, OnMessage(Enter(P, p), message))
         IN DispatchEvent(Microtasks([P1 EXCEPT !.thrown = FALSE]), message, k + 1)

\* the log entries of the setters: useProgram and the targetted binds
IsSetter(e) == e.by # 0 /\ e.name \in {"useProgram"} \cup targettedBinds
SetterKey(e) ==
    IF e.name = "useProgram" THEN e.name ELSE BindKey(e.name, e.args)
SetterCall(e) == [id |-> e.id, name |-> e.name, args |-> e.args]

\* recent after the calls es
RECURSIVE Track(_, _)
Track(r, es) ==
    IF es = <<>> THEN r
    ELSE LET e == Head(es)
             old == r[e.by]
             new == [k \in DOMAIN old \cup {SetterKey(e)} |->
                        IF k = SetterKey(e) THEN SetterCall(e) ELSE old[k]]
         IN Track(IF IsSetter(e) THEN [r EXCEPT ![e.by] = new] ELSE r, Tail(es))

\* the step ends in parent state P, having started with n entries in calls
Commit(P, n) ==
    /\ proxy' = P.proxy
    /\ gl' = P.gl
    /\ calls' = P.calls
    /\ recent' = Track(recent, SubSeq(P.calls, n + 1, Len(P.calls)))
    /\ pc' = P.pc
    /\ boot' = P.boot
    /\ down' = P.down

\* the scripts a worker page may run (see StubMenu and PageMenu)
Pages == {"sticky", "handles", "suppressed", "unknown", "malformed", "cached"}

Init ==
    /\ proxy = [w \in Workers |-> NewProxy(w)]
    /\ gl = GlInit
    /\ calls = <<>>
    /\ recent = [w \in Workers |-> [k \in {} |-> Undefined]]
    /\ pc = "add"
    /\ boot = [worker |-> 1, frame |-> 0]
    /\ up = [w \in Workers |-> <<>>]
    /\ down = [w \in Workers |-> <<>>]
    /\ id = [w \in Workers |-> 0]
    /\ pending = [w \in Workers |-> {}]
    /\ resolved = [w \in Workers |-> EmptyMap]
    /\ \E k \in Pages : page = [w \in Workers |-> IF w = 1 THEN k ELSE "other"]
    /\ sent = 0

\* addWorker constructs the proxy of the worker it adds (line 165)
AddWorkerProxy ==
    /\ pc = "add"
    /\ Commit([Parent EXCEPT !.proxy[boot.worker] = NewProxy(boot.worker),
                             !.calls = <<>>,
                             !.pc = "made"], 0)
    /\ UNCHANGED <<up, id, pending, resolved, page, sent>>

\* addWorker posts the bootstrap message (line 169)
AddWorkerBootstrap ==
    /\ pc = "made"
    /\ Commit([Parent EXCEPT !.down[boot.worker] = Append(@, BootstrapMessage),
                             !.calls = <<>>,
                             !.pc = "booted"], 0)
    /\ UNCHANGED <<up, id, pending, resolved, page, sent>>

\* addWorker begins the first of its frames (line 174)
AddWorkerFrame ==
    /\ pc = "booted"
    /\ LET P == [Parent EXCEPT !.calls = <<>>, !.boot.frame = 1, !.pc = "warm"]
       IN Commit(Leave(P, boot.worker, GetFrameCommands(Enter(P, boot.worker))), 0)
    /\ UNCHANGED <<up, id, pending, resolved, page, sent>>

\* requestAnimationFrame calls renderFrame
RenderFrame ==
    /\ pc = "raf"
    /\ Commit(RenderFrameBegin([Parent EXCEPT !.calls = <<>>]), 0)
    /\ UNCHANGED <<up, id, pending, resolved, page, sent>>

\* the parent window receives the oldest message worker w posted
Deliver(w) ==
    /\ up[w] # <<>>
    /\ Commit(DispatchEvent(Parent, Head(up[w]), 1), Len(calls))
    /\ up' = [up EXCEPT ![w] = Tail(@)]
    /\ UNCHANGED <<id, pending, resolved, page, sent>>

(***************************************************************************)
(* A worker iframe (gl-worker.js).  The bootstrap message makes the stubs   *)
(* and calls the page's main(): the page's script runs from then on.  id   *)
(* is the invocation counter, pending the ids that have a resolver in the pending *)
(* table, resolved the value each resolved promise got.  The page's own    *)
(* script, which is not part of gl-worker.js, sets workerId and render; it *)
(* calls the stubs, and may post messages to the parent window itself      *)
(* (with wantsResponse, as a batch), taking its ids from the same counter, *)
(* or asking under the id of a stub call it has made.  Only makeStub puts  *)
(* a resolver in pending.                                                  *)
(* page[w] names the script worker w runs, sent counts the messages the    *)
(* workers have posted.                                                    *)
(***************************************************************************)
Call(name, args) == [name |-> name, args |-> args]

\* what the page's script calls through the stubs, gl[name](...args): the
\* bootstrap message makes a stub for the functions of the context only
StubMenu(w) ==
    CASE page[w] = "sticky" ->
           {Call("useProgram", <<Number(w)>>),
            Call("bindBuffer", <<Number(1), Number(w)>>),
            Call("drawArrays", <<>>)}
      [] page[w] = "handles" ->
           {Call("createBuffer", <<>>),
            Call("bindBuffer", <<Number(1), FakeClone(0)>>)}
      [] page[w] = "suppressed" ->
           {Call("clear", <<Number(1)>>),
            Call("drawArrays", <<>>)}
      [] page[w] = "unknown" ->
           {Call("drawArrays", <<>>)}
      [] page[w] = "cached" ->
           {Call("getParameter", <<Number(1)>>)}
      [] page[w] = "malformed" ->
           {Call("drawArrays", <<>>)}
      [] OTHER -> {}

\* what the page's script posts itself, with invocation ids from i on
PageMenu(w, i) ==
    CASE page[w] = "sticky" ->
           {Batch(w, NoId,
                  <<Request(w, i, "useProgram", <<Number(w + 10)>>, FALSE),
                    Request(w, i + 1, "bindBuffer", <<Number(2), Number(w + 10)>>, FALSE)>>,
                  FALSE)}
      [] page[w] = "handles" ->
           {Request(w, i, "createBuffer", <<>>, TRUE),
            Request(w, i, "getExtension", <<Number(1)>>, TRUE)}
      [] page[w] = "cached" ->
           {Request(w, i, "getParameter", <<Number(1)>>, TRUE)}
           \cup {Request(w, j, "getParameter", <<Number(1)>>, TRUE) : j \in pending[w]}
      [] page[w] = "suppressed" ->
           {Request(w, i, "clear", <<Number(1)>>, TRUE),
            Batch(w, NoId,
                  <<Request(w, i, "drawArrays", <<>>, FALSE),
                    Request(w, i + 1, "clear", <<Number(1)>>, TRUE)>>,
                  TRUE)}
      [] page[w] = "unknown" ->
           {Request(w, i, "noSuchOp", <<FakeClone(0)>>, TRUE),
            Request(w, i, "DEPTH_TEST", <<>>, TRUE),
            Request(w, i, "toString", <<>>, TRUE),
            Batch(w, NoId,
                  <<Request(w, i, "noSuchOp", <<>>, TRUE),
                    Request(w, i + 1, "drawArrays", <<>>, FALSE)>>,
                  FALSE)}
      [] page[w] = "malformed" ->
           {NoArgs(w, i, "drawArrays", FALSE),
            Batch(w, NoId,
                  <<Request(w, i, "drawArrays", <<>>, FALSE),
                    NoArgs(w, i + 1, "drawArrays", FALSE),
                    Request(w, i + 2, "drawArrays", <<>>, FALSE)>>,
                  FALSE)}
      [] OTHER -> {}

\* the invocation ids a posted message uses up, from the counter at i on
IdsOf(message, i) ==
    IF message.isBatch THEN Len(message.messages)
    ELSE IF message.id < i THEN 0 ELSE 1

\* the function makeStub returns, up to its return: the message it posts
StubMessage(w, invokeId, call) == Request(w, invokeId, call.name, call.args, FALSE)

\* calls made one after another through the stubs, from invocation id i on
RECURSIVE StubMessages(_, _, _)
StubMessages(w, i, callSeq) ==
    IF callSeq = <<>> THEN <<>>
    ELSE <<StubMessage(w, i, Head(callSeq))>> \o StubMessages(w, i + 1, Tail(callSeq))

CallSeqs(w, n) == UNION {[1 .. k -> StubMenu(w)] : k \in 0 .. n}

Min(a, b) == IF a < b THEN a ELSE b

\* the calls render(time) may make through the stubs.  The "other" page sets
\* its program and buffer in its first frame and leaves them alone afterwards.
RenderCalls(w) ==
    IF page[w] = "other"
    THEN IF id[w] = 0
         THEN {<<Call("useProgram", <<Number(w)>>),
                 Call("bindBuffer", <<Number(1), Number(w)>>)>>}
         ELSE {<<>>}
    ELSE CallSeqs(w, Min(MaxRenderCalls, MaxSends - sent))

\* worker w has handled its bootstrap message: main() was called
Running(w) ==
    /\ w < boot.worker \/ (w = boot.worker /\ pc \notin {"add", "made"})
    /\ \A k \in 1 .. Len(down[w]) : down[w][k].name # "bootstrap"

\* the page calls a stub outside render
StubCall(w) ==
    /\ Running(w)
    /\ sent < MaxSends
    /\ \E call \in StubMenu(w) :
          up' = [up EXCEPT ![w] = Append(@, StubMessage(w, id[w], call))]
    /\ pending' = [pending EXCEPT ![w] = @ \cup {id[w]}]
    /\ id' = [id EXCEPT ![w] = @ + 1]
    /\ sent' = sent + 1
    /\ UNCHANGED <<proxy, gl, calls, recent, pc, boot, down, resolved, page>>

\* the page posts a message of its own
PagePost(w) ==
    /\ Running(w)
    /\ sent < MaxSends
    /\ \E message \in PageMenu(w, id[w]) :
          /\ up' = [up EXCEPT ![w] = Append(@, message)]
          /\ id' = [id EXCEPT ![w] = @ + IdsOf(message, id[w])]
    /\ sent' = sent + 1
    /\ UNCHANGED <<proxy, gl, calls, recent, pc, boot, down, pending, resolved, page>>

\* (mutant) the resolver is left in pending
SettledKept(pend, message) == pend

\* delete pending[message.id]
Settled(pend, message) == pend \ {message.id}

\* the worker's message listener on the oldest message posted to it
WorkerOnMessage(w) ==
    /\ down[w] # <<>>
    /\ down' = [down EXCEPT ![w] = Tail(@)]
    /\ LET message == Head(down[w])
           hit == message.id \in pending[w]
           left == IF hit THEN Settled(pending[w], message) ELSE pending[w]
       IN IF message.name = "bootstrap"
          THEN \* the stubs are made and main() is called
               UNCHANGED <<up, id, sent, pending, resolved>>
          ELSE
          /\ resolved' = IF hit
                         THEN [resolved EXCEPT ![w] =
                                  StoreUncloneable(@, message.id, message.result)]
                         ELSE resolved
          /\ IF message.name = "frame"
             THEN \E callSeq \in RenderCalls(w) :
                     /\ up' = [up EXCEPT ![w] =
                                  @ \o StubMessages(w, id[w], callSeq)
                                    \o <<FrameEnd(w)>>]
                     /\ id' = [id EXCEPT ![w] = @ + Len(callSeq)]
                     /\ sent' = IF page[w] = "other" THEN sent ELSE sent + Len(callSeq)
                     /\ pending' = [pending EXCEPT ![w] =
                                       left \cup (id[w] .. id[w] + Len(callSeq) - 1)]
             ELSE /\ pending' = [pending EXCEPT ![w] = left]
                  /\ UNCHANGED <<up, id, sent>>
    /\ UNCHANGED <<proxy, gl, calls, recent, pc, boot, page>>

Next ==
    \/ AddWorkerProxy
    \/ AddWorkerBootstrap
    \/ AddWorkerFrame
    \/ RenderFrame
    \/ \E w \in Workers : Deliver(w)
    \/ \E w \in Workers : StubCall(w)
    \/ \E w \in Workers : PagePost(w)
    \/ \E w \in Workers : WorkerOnMessage(w)

Spec == Init /\ [][Next]_vars

\* dropFrameCommands of proxy p is called.  Nothing in the source calls it;
\* the behaviours with it are those of a parent page that does, while
\* renderFrame collects, for the buffering proxy of the worker page under
\* study.
DropFrame(p) ==
    /\ page[p] # "other"
    /\ pc = "collect"
    /\ proxy[p].buffering
    /\ Commit(Leave(Parent, p, DropFrameCommands(Enter(Parent, p))), Len(calls))
    /\ UNCHANGED <<up, id, pending, resolved, page, sent>>

NextDrop ==
    \/ Next
    \/ \E p \in Workers : DropFrame(p)

\* with the pages that set sticky state or wait for replies
InitDrop == Init /\ page[1] \in {"sticky", "handles"}

SpecDrop == InitDrop /\ [][NextDrop]_vars

(***************************************************************************)
(* Properties.  Helpers first.                                             *)
(***************************************************************************)
\* the calls proxy p made on gl while executing its command buffer
FlushEntries(cs, p) ==
    SelectSeq(cs, LAMBDA e : e.by = p /\ e.at.phase \in {"flush", "warm"})

\* this step executes the command buffer of proxy p, which was buffering: it
\* is not buffering afterwards, unless addWorker went on to its next frame
Flushed(p) ==
    /\ proxy[p].buffering
    /\ \/ ~proxy'[p].buffering
       \/ pc = "warm" /\ boot.worker = p /\ boot' # boot

\* main has left its loop over the workers and called renderFrame
Started == boot.worker > workerCount

\* the calls this step adds to the log
NewCalls ==
    IF Len(calls') >= Len(calls) /\ SubSeq(calls', 1, Len(calls)) = calls
    THEN SubSeq(calls', Len(calls) + 1, Len(calls'))
    ELSE calls'

\* what this step posts to worker p
Posted(p) == SubSeq(down'[p], Len(down[p]) + 1, Len(down'[p]))

\* a message to a worker that is a reply: neither frame nor bootstrap
IsReply(x) == x.name \notin {"frame", "bootstrap"}

\* this step posts no reply to worker p (a frame message at most)
NoReply(p) == \A k \in 1 .. Len(Posted(p)) : ~IsReply(Posted(p)[k])

\* this step is the message event of the oldest message of worker w
Delivered(w) == up[w] # <<>> /\ up'[w] = Tail(up[w])

\* the requests of a command buffer one by one, a batch expanded in place
RECURSIVE Flatten(_, _)
Flatten(queue, k) ==
    IF k > Len(queue) THEN <<>>
    ELSE (IF queue[k].isBatch
          THEN [j \in 1 .. Len(queue[k].messages) |->
                   [qi |-> k, bi |-> j, m |-> queue[k].messages[j]]]
          ELSE <<[qi |-> k, bi |-> 0, m |-> queue[k]]>>)
         \o Flatten(queue, k + 1)

\* the requests before the first one that has no args or names a property of
\* gl that is a number (none is run after it)
BeforeThrow(fl) ==
    LET bad == {i \in 1 .. Len(fl) :
                   ~fl[i].m.hasArgs
                   \/ (fl[i].m.name \in GlConstants /\ Truthy(GlProperty(fl[i].m.name)))}
        stop == IF bad = {} THEN Len(fl) + 1
                ELSE CHOOSE i \in bad : \A j \in bad : i <= j
    IN SubSeq(fl, 1, stop - 1)

\* the requests of a command buffer that name a gl function not suppressed
Applicable(queue) ==
    SelectSeq(BeforeThrow(Flatten(queue, 1)),
              LAMBDA x : x.m.name \in GlFunctions \ blacklist)

\* C1: a flush applies the queued requests to gl in exactly the order they
\* were enqueued, a batch expanded in place in element order, none twice:
\* the calls a flush makes are, one for one and in order, the requests of the
\* command buffer (those naming a gl function that is not suppressed).
C1_FlushInQueueOrder ==
    [][\A p \in Workers :
          Flushed(p) =>
             LET F == FlushEntries(NewCalls, p)
                 E == Applicable(proxy[p].commandBuffer)
             IN /\ Len(F) = Len(E)
                /\ \A i \in 1 .. Len(F) :
                      /\ F[i].at.qi = E[i].qi
                      /\ F[i].at.bi = E[i].bi
                      /\ F[i].id = E[i].m.id
                      /\ F[i].name = E[i].m.name]_vars

\* a flush has applied a request and then the two elements of a batch
C1_Witness ==
    /\ pc = "raf"
    /\ \E p \in Workers :
          LET F == FlushEntries(calls, p)
          IN \E i, j, k \in 1 .. Len(F) :
                /\ i < j /\ j < k
                /\ F[i].at.bi = 0 /\ F[i].at.qi < F[j].at.qi
                /\ F[j].at.qi = F[k].at.qi
                /\ F[j].at.bi = 1 /\ F[k].at.bi = 2

\* C2: in every flush, the proxy's most recently executed useProgram and its
\* most recently executed targetted bind for each (name, first argument) are
\* applied to gl before any request that arrived during the window, the
\* useProgram first (the first arguments told apart as lastTargettedBinds
\* tells them apart, by the string they convert to).
C2_StickyStateFirst ==
    [][\A p \in Workers :
          Flushed(p) =>
             LET F == FlushEntries(NewCalls, p)
                 R == recent[p]
                 n == Cardinality(DOMAIN R)
             IN /\ Len(F) >= n
                /\ \A key \in DOMAIN R :
                      \E i \in 1 .. n : SetterCall(F[i]) = R[key]
                /\ "useProgram" \in DOMAIN R => F[1].name = "useProgram"
                /\ \A i \in 1 .. Len(F) :
                      IF i <= n THEN F[i].at.qi = i ELSE F[i].at.qi > n]_vars

\* a flush has applied proxy 1's useProgram again, over the program another
\* proxy had put in use, and after it a request of the window
C2_Witness ==
    /\ pc = "raf"
    /\ LET F == FlushEntries(calls, 1)
       IN \E i, j \in 1 .. Len(F) :
             /\ i < j
             /\ F[i].name = "useProgram" /\ F[i].at.qi = 1 /\ F[i].at.bi = 0
             /\ F[i].args = <<Number(11)>>
             /\ F[i].was = Number(2)
             /\ F[j].name = "drawArrays"

\* the frame end of worker q has been received by the end of this step
FrameEndReceived(q) ==
    \/ proxy[q].frameEndListener = "resolved"
    \/ \E w \in Workers :
          /\ Delivered(w)
          /\ Head(up[w]).isFrameEnd
          /\ Head(up[w]).workerId = q

\* C3: in a cycle of renderFrame no proxy's command buffer is executed before
\* the frame end of every proxy has been received for this frame.
C3_FlushAfterAllFrameEnds ==
    [][\A p \in Workers :
          pc = "collect" /\ Flushed(p) => \A q \in Workers : FrameEndReceived(q)]_vars

\* the second worker's frame end has arrived before the first one's, and both
\* proxies still hold their commands
C3_Witness ==
    /\ pc = "collect"
    /\ proxy[2].frameEndListener = "resolved"
    /\ proxy[1].frameEndListener = "pending"
    /\ proxy[2].buffering /\ proxy[2].commandBuffer # <<>>
    /\ proxy[1].buffering /\ proxy[1].commandBuffer # <<>>

\* the place of proxy p in window.proxies
Place(p) == CHOOSE k \in 1 .. Len(proxies) : proxies[k] = p

\* C4: in a frame of renderFrame gl is cleared exactly once, before the first
\* flush; the proxies are flushed one after another in the order of
\* window.proxies, nothing else applied in between; between the start of the
\* collection and the clear no request is applied.
C4_ClearThenFlushInOrder ==
    /\ [](LET frame == {i \in 1 .. Len(calls) : calls[i].at.phase = "frame"}
              clears == {i \in frame : calls[i].name = "clear"}
              flush == {i \in 1 .. Len(calls) : calls[i].at.phase = "flush"}
          IN /\ pc = "collect" =>
                   /\ frame \cup flush = {}
                   /\ \A p \in Workers : proxy[p].buffering
             /\ frame \cup flush # {} => Cardinality(clears) = 1
             /\ \A i \in flush : \A c \in clears : c < i
             /\ \A i \in frame : \A c \in clears : i <= c
             /\ \A i, j \in flush : i < j => Place(calls[i].by) <= Place(calls[j].by)
             /\ \A i \in (1 .. Len(calls)) \ (frame \cup flush) :
                   \A j, k \in frame \cup flush : ~(j < i /\ i < k)
             /\ pc = "raf" =>
                   /\ frame # {}
                   /\ \A p \in Workers :
                         ~proxy[p].buffering /\ proxy[p].commandBuffer = <<>>)
    /\ [][pc = "collect" /\ pc' = "collect" => gl' = gl /\ calls' = calls]_vars

\* a frame has cleared gl and then applied commands of proxy 1 and of proxy 2
C4_Witness ==
    /\ pc = "raf"
    /\ \E c, i, j \in 1 .. Len(calls) :
          /\ c < i /\ i < j
          /\ calls[c].by = 0 /\ calls[c].name = "clear"
          /\ calls[i].by = 1 /\ calls[i].at.phase = "flush"
          /\ calls[j].by = 2 /\ calls[j].at.phase = "flush"

\* C5: a message whose workerId is not the proxy's leaves the proxy as it
\* was, and the proxy makes no call on gl and posts nothing for it.
C5_OtherWorkersMessagesIgnored ==
    /\ [](\A p, w \in Workers : \A k \in 1 .. Len(up[w]) :
             up[w][k].workerId # p =>
                OnMessage(Enter(Parent, p), up[w][k]) = Enter(Parent, p))
    /\ [][\A w \in Workers :
             Delivered(w) /\ pc' = pc =>
                \A p \in Workers \ {Head(up[w]).workerId} :
                   /\ proxy'[p] = proxy[p]
                   /\ down'[p] = down[p]
                   /\ Len(FlushEntries(calls', p)) = Len(FlushEntries(calls, p))
                   /\ \A i \in Len(calls) + 1 .. Len(calls') : calls'[i].by # p]_vars

\* a batch of worker 1 and the frame end of worker 2 are under way while
\* proxy 1 awaits its frame end and proxy 2 fills its command buffer
C5_Witness ==
    /\ \E k \in 1 .. Len(up[1]) : up[1][k].isBatch
    /\ up[2] # <<>> /\ up[2][Len(up[2])].isFrameEnd
    /\ proxy[1].frameEndListener = "pending"
    /\ proxy[2].buffering /\ proxy[2].commandBuffer # <<>>

\* a request, not in a batch, with its args
IsRequest(m) == ~m.isBatch /\ ~m.isFrameEnd /\ m.hasArgs

\* C6 as stated: a request for a suppressed function (clear) never causes a
\* reply and never changes gl, however it is delivered and whether or not it
\* has wantsResponse.
C6_SuppressedNeverAnswered ==
    /\ [](\A i \in 1 .. Len(calls) : calls[i].by # 0 => calls[i].name \notin blacklist)
    /\ [][\A w \in Workers :
             Delivered(w) /\ IsRequest(Head(up[w])) /\ Head(up[w]).name \in blacklist =>
                gl' = gl /\ down'[w] = down[w]]_vars

\* C7 as stated: the reply for a request whose function returned an object
\* carries {fakeClone, index} for it, never the object; and a later request
\* that passes the reference is applied with the very object stored.
C7_HandleInReply ==
    /\ \A w \in Workers : \A k \in 1 .. Len(down[w]) :
          /\ down[w][k].result.t # "object"
          /\ (down[w][k].id \in DOMAIN proxy[w].uncloneables
              /\ proxy[w].uncloneables[down[w][k].id].t = "object")
             => down[w][k].result = FakeClone(down[w][k].id)
    /\ \A i \in 1 .. Len(calls) : \A j \in 1 .. Len(calls[i].args) :
          /\ calls[i].args[j].t # "fakeClone"
          /\ calls[i].args[j].t = "object" =>
                \E h \in DOMAIN proxy[calls[i].by].uncloneables :
                   proxy[calls[i].by].uncloneables[h] = calls[i].args[j]

\* C8 as stated: a request that arrives while the proxy is not buffering is
\* applied at once; with wantsResponse exactly one reply is sent, with the
\* request's id and the value executeOneCommand returned for it; without, none.
C8_ReplyCarriesResult ==
    [][\A w \in Workers :
          (/\ Delivered(w)
           /\ IsRequest(Head(up[w]))
           /\ ~proxy[w].buffering) =>
             LET m == Head(up[w])
                 r == ExecuteOneCommand(Enter(Parent, w), m,
                                        [phase |-> "dispatch", qi |-> 0, bi |-> 0])
             IN /\ gl' = r.gl
                /\ down'[w] = IF m.wantsResponse
                              THEN Append(down[w], Reply(m.id, r.res))
                              ELSE down[w]]_vars

\* C9 as stated: a request that names no function of gl is ignored: no
\* reply, no trace entry, gl, the sticky state and the uncloneables as before,
\* dispatched at once or flushed (the flush goes on with the requests behind
\* it, and the frame ends as any other does).
C9_UnknownNeverAnswered ==
    /\ [](page[1] = "unknown" => pc # "dead")
    /\ [][\A w \in Workers :
             (/\ Delivered(w)
              /\ IsRequest(Head(up[w]))
              /\ ~Callable(Head(up[w]).name)) =>
                /\ down'[w] = down[w]
                /\ gl' = gl
                /\ proxy'[w].cache = proxy[w].cache
                /\ proxy'[w].uncloneables = proxy[w].uncloneables
                /\ proxy'[w].lastUseProgram = proxy[w].lastUseProgram
                /\ proxy'[w].lastTargettedBinds = proxy[w].lastTargettedBinds]_vars

\* C10 as stated: a stub call whose request reaches the proxy while it is not
\* buffering is answered: the request the stub posts has wantsResponse, and
\* the proxy posts a reply with the request's id when it dispatches it.
C10_StubCallAnswered ==
    /\ [](\A w \in Workers : \A k \in 1 .. Len(up[w]) :
            (IsRequest(up[w][k]) /\ up[w][k].id \in pending[w]) =>
               up[w][k].wantsResponse)
    /\ [][\A w \in Workers :
          (/\ Delivered(w)
           /\ IsRequest(Head(up[w]))
           /\ Head(up[w]).id \in pending[w]
           /\ ~proxy[w].buffering) =>
             \E k \in 1 .. Len(down'[w]) :
                /\ k > Len(down[w])
                /\ down'[w][k].id = Head(up[w]).id]_vars

\* C11: while a proxy is buffering it makes no call on gl and posts no reply:
\* a request or batch addressed to it that arrives then goes to the end of its
\* command buffer and nothing else changes; the calls a proxy makes are made
\* at a dispatch that finds it not buffering, or by executeFrameCommands,
\* which sets buffering to false first.
C11_BufferingDefers ==
    [][/\ \A w \in Workers :
             (/\ Delivered(w)
              /\ ~Head(up[w]).isFrameEnd
              /\ proxy[Head(up[w]).workerId].buffering) =>
                /\ proxy' = [proxy EXCEPT ![Head(up[w]).workerId].commandBuffer =
                                             Append(@, Head(up[w]))]
                /\ gl' = gl /\ calls' = calls /\ down' = down /\ pc' = pc
       /\ \A i \in 1 .. Len(NewCalls) :
             NewCalls[i].by # 0 =>
                IF NewCalls[i].at.phase = "dispatch"
                THEN ~proxy[NewCalls[i].by].buffering
                ELSE Flushed(NewCalls[i].by)
       /\ \A p \in Workers :
             (/\ Len(down'[p]) > Len(down[p])
              /\ IsReply(down'[p][Len(down'[p])])) => ~proxy[p].buffering]_vars

\* proxy 1 is buffering and holds, behind no seed, a request and a batch that
\* arrived in this window; nothing was applied
C11_Witness ==
    /\ pc = "collect"
    /\ page[1] = "suppressed"
    /\ proxy[1].buffering
    /\ Len(proxy[1].commandBuffer) = 2
    /\ proxy[1].commandBuffer[2].isBatch
    /\ proxy[1].commandBuffer[2].wantsResponse
    /\ calls = <<>>
    /\ down[1] = <<>>

\* C12: dropFrameCommands sets buffering to false and empties the command
\* buffer without executing it: gl, the log of calls, the uncloneables, the
\* cache, lastUseProgram and lastTargettedBinds are as before, nothing is
\* posted, and the other proxies are as before.
C12_DropAppliesNothing ==
    [][\A p \in Workers :
          DropFrame(p) =>
             /\ proxy' = [proxy EXCEPT ![p].buffering = FALSE,
                                       ![p].commandBuffer = <<>>]
             /\ gl' = gl /\ calls' = calls /\ down' = down /\ pc' = pc
             /\ GetFrameCommands(Enter(Parent, p)).px.commandBuffer
                   = proxy[p].commandBuffer
                     \o GetFrameCommands(Enter(Parent', p)).px.commandBuffer]_vars

\* proxy 1 set its program in an earlier frame, then buffered its second
\* request in this window, and dropFrameCommands has emptied the buffer:
\* nothing was applied and lastUseProgram is kept
C12_Witness ==
    /\ pc = "collect"
    /\ page[1] = "sticky"
    /\ sent = 2
    /\ \A k \in 1 .. Len(up[1]) : up[1][k].isFrameEnd
    /\ ~proxy[1].buffering
    /\ proxy[1].commandBuffer = <<>>
    /\ proxy[1].lastUseProgram # <<>>
    /\ calls = <<>>

\* C13: a proxy keeps at most one useProgram message and at most one message
\* per (bind function, first argument); each is the request this proxy most
\* recently applied to gl for that key (a flush's replay included), so a
\* request that is still buffered, was dropped, is suppressed or names no gl
\* function is not among them.
C13_StickyStateIsLastApplied ==
    \A p \in Workers :
       LET last == proxy[p].lastUseProgram
           binds == proxy[p].lastTargettedBinds
           R == recent[p]
           KeyOf(m) == BindKey(m.name, m.args)
       IN /\ Len(last) <= 1
          /\ last # <<>> <=> "useProgram" \in DOMAIN R
          /\ last # <<>> =>
                /\ last[1].name = "useProgram"
                /\ SetterCall(last[1]) = R["useProgram"]
          /\ \A i, j \in 1 .. Len(binds) :
                i # j => /\ binds[i].key # binds[j].key
                         /\ KeyOf(binds[i].message) # KeyOf(binds[j].message)
                         /\ <<binds[i].message.name, ArgAt(binds[i].message.args, 1)>>
                               # <<binds[j].message.name, ArgAt(binds[j].message.args, 1)>>
          /\ \A i \in 1 .. Len(binds) :
                /\ binds[i].message.name \in targettedBinds
                /\ KeyOf(binds[i].message) \in DOMAIN R
                /\ SetterCall(binds[i].message) = R[KeyOf(binds[i].message)]

\* proxy 1 applied useProgram(1) before this window and now holds, behind
\* its seed, a batch that asks for another program and a bind: lastUseProgram
\* is still the applied one and lastTargettedBinds is empty
C13_Witness ==
    /\ page[1] = "sticky"
    /\ proxy[1].buffering
    /\ Len(proxy[1].commandBuffer) = 2
    /\ proxy[1].commandBuffer[2].isBatch
    /\ proxy[1].lastUseProgram = <<proxy[1].commandBuffer[1]>>
    /\ proxy[1].commandBuffer[1].args = <<Number(1)>>
    /\ proxy[1].lastTargettedBinds = <<>>

\* a request without its args, or a batch with such an element
Malformed(m) ==
    /\ ~m.isFrameEnd
    /\ IF m.isBatch THEN \E j \in 1 .. Len(m.messages) : ~m.messages[j].hasArgs
       ELSE ~m.hasArgs

\* C14 as stated: a malformed message is dropped without being applied in
\* part: no element of its batch is applied to gl, the proxy is left as it
\* was, and later flushes end normally (renderFrame goes on, every flush
\* leaves buffering false and the command buffer empty).
C14_MalformedRejected ==
    /\ [](page[1] = "malformed" => pc # "dead")
    /\ [][/\ \A w \in Workers :
                Delivered(w) /\ Malformed(Head(up[w])) =>
                   /\ gl' = gl /\ calls' = calls
                   /\ proxy'[Head(up[w]).workerId] = proxy[Head(up[w]).workerId]
          /\ \A p \in Workers :
                (page[1] = "malformed" /\ pc = "collect" /\ Flushed(p)) =>
                   proxy'[p].commandBuffer = <<>>]_vars

\* C15 as stated: uncloneables gains an entry exactly when a call on gl
\* returned an object (null, a number or no result adds none), under the
\* request's id, and no entry is removed or replaced afterwards.
C15_OnlyObjectsStored ==
    /\ [](\A p \in Workers : \A h \in DOMAIN proxy[p].uncloneables :
             proxy[p].uncloneables[h].t = "object")
    /\ [][\A p \in Workers :
             /\ \A h \in DOMAIN proxy[p].uncloneables :
                   /\ h \in DOMAIN proxy'[p].uncloneables
                   /\ proxy'[p].uncloneables[h] = proxy[p].uncloneables[h]
             /\ \A h \in DOMAIN proxy'[p].uncloneables \ DOMAIN proxy[p].uncloneables :
                   \E i \in 1 .. Len(NewCalls) :
                      /\ NewCalls[i].by = p
                      /\ NewCalls[i].id = h
                      /\ GlApply(gl, NewCalls[i].name, NewCalls[i].args).res.t
                            = "object"]_vars

\* this step is worker w's message listener on the oldest message posted to it
Received(w) == down[w] # <<>> /\ down'[w] = Tail(down[w])

\* the ids of the requests this step adds to the channel of worker w
NewIds(w) ==
    {up'[w][k].id : k \in {j \in Len(up[w]) + 1 .. Len(up'[w]) :
                             ~up'[w][j].isFrameEnd /\ ~up'[w][j].isBatch}}

\* C16 as stated: in a worker, every stub call takes an id no earlier call
\* took (the counter only grows) and registers one entry of pending under
\* it; a message whose id has an entry resolves that promise, once, with the
\* message's result and removes the entry; a message whose id has none (the
\* frame message too) resolves nothing and leaves pending as it was.
C16_PendingTableUnchanged ==
    /\ [](\A w \in Workers :
             /\ pending[w] \cup DOMAIN resolved[w] \subseteq 0 .. id[w] - 1
             /\ pending[w] \cap DOMAIN resolved[w] = {}
             /\ \A k \in 1 .. Len(up[w]) : up[w][k].id < id[w])
    /\ [][\A w \in Workers :
             LET message == Head(down[w])
             IN /\ id'[w] >= id[w]
                /\ StubCall(w) =>
                      /\ pending'[w] = pending[w] \cup {id[w]}
                      /\ id[w] \notin pending[w]
                      /\ id'[w] = id[w] + 1
                /\ Received(w) =>
                      IF message.name # "bootstrap" /\ message.id \in pending[w]
                      THEN /\ pending[w] \ pending'[w] = {message.id}
                           /\ DOMAIN resolved'[w] = DOMAIN resolved[w] \cup {message.id}
                           /\ resolved'[w][message.id] = message.result
                      ELSE pending'[w] = pending[w] /\ resolved'[w] = resolved[w]
                /\ \A h \in DOMAIN resolved[w] :
                      /\ h \in DOMAIN resolved'[w]
                      /\ resolved'[w][h] = resolved[w][h]]_vars

\* C16 amended: in a worker, every stub call takes an id no earlier call took
\* (the counter only grows) and registers one entry of pending under it; a
\* message whose id has an entry resolves that promise, once, with the
\* message's result and removes the entry; a message whose id has none (the
\* frame message too) resolves nothing and removes nothing, and the only
\* entries it adds are those of the stub calls render makes when the message
\* is the frame message, one under each id those calls take.
C16_PendingTable ==
    /\ [](\A w \in Workers :
             /\ pending[w] \cup DOMAIN resolved[w] \subseteq 0 .. id[w] - 1
             /\ pending[w] \cap DOMAIN resolved[w] = {}
             /\ \A k \in 1 .. Len(up[w]) : up[w][k].id < id[w])
    /\ [][\A w \in Workers :
             LET new == pending'[w] \ pending[w]
                 gone == pending[w] \ pending'[w]
                 message == Head(down[w])
             IN /\ id'[w] >= id[w]
                /\ new \subseteq id[w] .. id'[w] - 1
                /\ StubCall(w) => new = {id[w]} /\ NewIds(w) = new /\ id'[w] = id[w] + 1
                /\ Received(w) =>
                      /\ NewIds(w) = new
                      /\ Cardinality(new) = id'[w] - id[w]
                      /\ IF message.id \in pending[w]
                         THEN /\ gone = {message.id}
                              /\ DOMAIN resolved'[w] = DOMAIN resolved[w] \cup {message.id}
                              /\ resolved'[w][message.id] = message.result
                         ELSE gone = {} /\ resolved'[w] = resolved[w]
                /\ ~Received(w) => gone = {} /\ resolved'[w] = resolved[w]
                /\ \A h \in DOMAIN resolved[w] :
                      /\ h \in DOMAIN resolved'[w]
                      /\ resolved'[w][h] = resolved[w][h]]_vars

\* worker 1 called a stub (id 0) and then asked again under that id with
\* wantsResponse: the reply has resolved the promise of the stub call, with
\* the reply's result, and removed its entry
C16_Witness ==
    /\ page[1] = "cached"
    /\ id[1] = 1
    /\ pending[1] = {}
    /\ DOMAIN resolved[1] = {0}
    /\ resolved[1][0] = Undefined
    /\ down[1] = <<>>

\* worker q has not answered the frame message of this frame yet, or its
\* frame end is still on its way
FrameEndOutstanding(q) ==
    \/ \E k \in 1 .. Len(down[q]) : down[q][k].name = "frame"
    \/ \E k \in 1 .. Len(up[q]) : up[q][k].isFrameEnd

\* this step is the message event of a frame end of worker q
FrameEndDelivered(q) ==
    \E w \in Workers :
       Delivered(w) /\ Head(up[w]).isFrameEnd /\ Head(up[w]).workerId = q

\* C17: in a frame of renderFrame, as long as the frame end of one worker
\* has not arrived, that proxy's promise stays pending and renderFrame stays
\* at its await: no proxy is
\* flushed, every proxy stays buffering, nothing is applied to gl, and the
\* requests that arrive are added to the command buffers.
C17_NoFrameEndNoFlush ==
    /\ [](\A q \in Workers :
             (/\ Started
              /\ \/ FrameEndOutstanding(q)
                 \/ (pc = "collect" /\ proxy[q].frameEndListener = "pending")) =>
                /\ pc = "collect"
                /\ proxy[q].frameEndListener = "pending"
                /\ \A i \in 1 .. Len(calls) : calls[i].at.phase \notin {"frame", "flush"}
                /\ \A p \in Workers : proxy[p].buffering)
    /\ [][\A q \in Workers :
             (/\ pc = "collect"
              /\ proxy[q].frameEndListener = "pending"
              /\ ~FrameEndDelivered(q)) =>
                /\ pc' = "collect"
                /\ proxy'[q].frameEndListener = "pending"
                /\ gl' = gl /\ calls' = calls
                /\ \A p \in Workers :
                      /\ proxy'[p].buffering
                      /\ Len(proxy'[p].commandBuffer) >= Len(proxy[p].commandBuffer)
                      /\ SubSeq(proxy'[p].commandBuffer, 1, Len(proxy[p].commandBuffer))
                            = proxy[p].commandBuffer]_vars

\* worker 2 has sent its frame end and worker 1 has not answered the frame
\* message yet: renderFrame waits, and both proxies hold what has arrived
C17_Witness ==
    /\ pc = "collect"
    /\ proxy[2].frameEndListener = "resolved"
    /\ proxy[1].frameEndListener = "pending"
    /\ up[1] = <<>> /\ up[2] = <<>>
    /\ \E k \in 1 .. Len(down[1]) : down[1][k].name = "frame"
    /\ Len(proxy[1].commandBuffer) = 2
    /\ proxy[2].commandBuffer # <<>>
    /\ calls = <<>>

\* C18 as stated: when every worker answers each frame message with one
\* frame end after render, every frame completes: renderFrame reaches its
\* requestAnimationFrame, and the flush of each proxy runs every request of
\* its command buffer (applying those that name a gl function not
\* suppressed) and leaves the buffer empty and buffering false.
C18_EveryFrameCompletes ==
    /\ [](pc # "dead")
    /\ [][\A p \in Workers :
             pc = "collect" /\ Flushed(p) =>
                /\ proxy'[p].commandBuffer = <<>>
                /\ ~proxy'[p].buffering
                /\ Len(FlushEntries(NewCalls, p))
                      = Len(SelectSeq(Flatten(proxy[p].commandBuffer, 1),
                                      LAMBDA x : x.m.name \in GlFunctions \ blacklist))
                /\ \A q \in Workers : Place(q) > Place(p) => Flushed(q)]_vars

\* a reply to the request with id i is on its way to worker p, or has arrived
AnsweredId(p, i) ==
    \/ \E k \in 1 .. Len(down[p]) : IsReply(down[p][k]) /\ down[p][k].id = i
    \/ i \in DOMAIN resolved[p]

\* m is a message as a stub posts it: makeStub has put a resolver in pending
\* under its id
StubPosted(p, m) ==
    ~m.isBatch /\ ~m.isFrameEnd /\ m.hasArgs
    /\ m = StubMessage(p, m.id, Call(m.name, m.args))

\* the messages proxy p would seed its command buffer with
Seeds(p) ==
    {proxy[p].lastUseProgram[k] : k \in 1 .. Len(proxy[p].lastUseProgram)}
    \cup {proxy[p].lastTargettedBinds[k].message :
             k \in 1 .. Len(proxy[p].lastTargettedBinds)}

\* C19: a request that went into a command buffer is never answered: no
\* reply is posted when it is buffered, when the flush applies it or when the
\* buffer is dropped, wantsResponse or not, so a resolver registered for it
\* stays in pending and its promise is never resolved.  A reply is posted
\* only by the message event that dispatches a message at once.
C19_QueuedNeverAnswered ==
    /\ [](\A p \in Workers :
             /\ \A k \in 1 .. Len(proxy[p].commandBuffer) :
                   LET m == proxy[p].commandBuffer[k]
                   IN (m \notin Seeds(p) /\ m.id # NoId) =>
                         /\ ~AnsweredId(p, m.id)
                         /\ StubPosted(p, m) => m.id \in pending[p]
             /\ \A i \in 1 .. Len(calls) :
                   (/\ calls[i].by = p
                    /\ calls[i].at.phase \in {"flush", "warm"}
                    /\ ~IsSetter(calls[i])) => ~AnsweredId(p, calls[i].id))
    /\ [][/\ \A w \in Workers :
                (/\ Delivered(w)
                 /\ ~Head(up[w]).isFrameEnd
                 /\ proxy[Head(up[w]).workerId].buffering) => down' = down
          /\ \A p \in Workers :
                /\ Flushed(p) => NoReply(p)
                /\ DropFrame(p) =>
                      down' = down /\ pending' = pending /\ resolved' = resolved
                /\ (/\ Len(down'[p]) > Len(down[p])
                    /\ IsReply(down'[p][Len(down'[p])])) =>
                      \E w \in Workers :
                         /\ Delivered(w)
                         /\ Head(up[w]).workerId = p
                         /\ Head(up[w]).wantsResponse
                         /\ Head(up[w]).id = down'[p][Len(down'[p])].id
                         /\ ~proxy[p].buffering]_vars

\* worker 1 called the stub createBuffer (id 0, a resolver in pending) and
\* posted a createBuffer of its own that asked for a response (id 1); both
\* were buffered and the flush has applied them: the buffer objects are
\* stored, no reply was posted and the resolver is still pending
C19_Witness ==
    /\ page[1] = "handles"
    /\ pc = "raf"
    /\ \E i, j \in 1 .. Len(calls) :
          /\ calls[i].by = 1 /\ calls[j].by = 1
          /\ calls[i].at.phase = "flush" /\ calls[j].at.phase = "flush"
          /\ calls[i].name = "createBuffer" /\ calls[j].name = "createBuffer"
          /\ calls[i].id = 0 /\ calls[j].id = 1
    /\ DOMAIN proxy[1].uncloneables = {0, 1}
    /\ pending[1] = {0}
    /\ down[1] = <<>>
    /\ resolved[1] = EmptyMap

\* the call e was made with the program and the bindings that the setters R
\* (of the proxy that made it) had last set
OwnState(R, e) ==
    /\ "useProgram" \in DOMAIN R => e.was = ArgAt(R["useProgram"].args, 1)
    /\ \A key \in DOMAIN R :
          (/\ R[key].name \in GlBindNames
           /\ ArgAt(R[key].args, 1).t = "number"
           /\ ArgAt(R[key].args, 1).v \in Targets) =>
             e.had[<<R[key].name, ArgAt(R[key].args, 1).v>>] = ArgAt(R[key].args, 2)

\* the i-th call of this step was made under its proxy's own program and bindings
OwnStateAt(i) ==
    OwnState(Track(recent, SubSeq(NewCalls, 1, i - 1))[NewCalls[i].by], NewCalls[i])

\* C20 as stated: whenever a proxy applies a request that is no setter, in a
\* flush or at a dispatch between two windows, gl's program and bindings are
\* the ones this proxy's own last setters set, for every key it has set.
C20_OwnStateAtEveryCall ==
    [][\A i \in 1 .. Len(NewCalls) :
          (NewCalls[i].by # 0 /\ ~IsSetter(NewCalls[i])) => OwnStateAt(i)]_vars

\* C20 amended: whenever a proxy applies, in a flush, a request that is no
\* setter, gl's program and bindings are the ones this proxy's own last
\* setters set, for every key it has set.
C20_OwnStateInFlush ==
    [][\A i \in 1 .. Len(NewCalls) :
          (/\ NewCalls[i].by # 0
           /\ ~IsSetter(NewCalls[i])
           /\ NewCalls[i].at.phase \in {"flush", "warm"}) => OwnStateAt(i)]_vars

\* the flush of proxy 1 found the program and the buffer of proxy 2 on gl,
\* and applied the drawArrays of proxy 1 under proxy 1's own again
C20_Witness ==
    /\ pc = "raf"
    /\ \E i, j \in 1 .. Len(calls) :
          /\ i < j
          /\ calls[i].by = 1 /\ calls[i].at.phase = "flush"
          /\ calls[i].name = "useProgram"
          /\ calls[i].args = <<Number(1)>>
          /\ calls[i].was = Number(2)
          /\ calls[i].had[<<"bindBuffer", 1>>] = Number(2)
          /\ calls[j].by = 1 /\ calls[j].at.phase = "flush"
          /\ calls[j].name = "drawArrays"
          /\ calls[j].was = Number(1)

====
